---- MODULE Spec2Model ----
(***************************************************************************)
(* reorder_python_imports/main.py as a state machine.                      *)
(*                                                                         *)
(* Source text is a sequence of characters over a small alphabet, one      *)
(* string of length one per character:                                     *)
(*   "N"  the newline "\n"                                                 *)
(*   "S"  a space                                                          *)
(*   "F"  a form feed "\x0c": white space to the tokenizer, a line         *)
(*        boundary to str.splitlines                                       *)
(*   "I"  the keyword `import` with the blank that follows it              *)
(*   "a" "b"  module names                                                 *)
(*   ","  the comma of `import a, b`                                       *)
(*   "#"  the start of a comment, which runs to the end of the line        *)
(*   "D"  a string literal                                                 *)
(*   "x"  any other expression token                                       *)
(* The standard library (ast.parse, tokenize.generate_tokens,              *)
(* str.splitlines, str.lstrip, str.rstrip) and aspy.refactor_imports       *)
(* (import_obj_from_str, sort) are modelled by what they do on this        *)
(* alphabet.                                                               *)
(***************************************************************************)
EXTENDS Integers, Sequences, FiniteSets, TLC

\* ------------------------------------------------------------------ bounds

\* The longest source, in physical lines.
MaxLines == 2

\* The longest list of file names main is given.
MaxFiles == 2

\* ------------------------------------------------------------------- text

Names == {"a", "b"}

\* tokenize skips blanks and form feeds between tokens.
IsSpace(c) == c \in {"S", "F"}

\* str.splitlines ends a line at "\n" and at "\x0c" alike.
IsLineBoundary(c) == c \in {"N", "F"}

\* str.rstrip() with no argument strips every white-space character.
IsWhitespace(c) == c \in {"S", "F", "N"}

RECURSIVE Concat(_)
\* ''.join(texts)
Concat(texts) ==
    IF texts = <<>> THEN <<>> ELSE Head(texts) \o Concat(Tail(texts))

\* src[lo:hi] of Python: both ends clamped to the text, empty when hi <= lo.
Slice(s, lo, hi) ==
    LET h == IF hi > Len(s) THEN Len(s) ELSE hi
    IN  IF lo >= h THEN <<>> ELSE SubSeq(s, lo + 1, h)

RECURSIVE SplitAt(_, _, _, _)
\* The lines of s, cut at every line boundary; the boundary characters
\* themselves are dropped. A last line with no boundary after it is kept when
\* it is not empty.
SplitAt(s, i, cur, acc) ==
    IF i > Len(s)
    THEN IF cur = <<>> THEN acc ELSE Append(acc, cur)
    ELSE IF IsLineBoundary(s[i])
         THEN SplitAt(s, i + 1, <<>>, Append(acc, cur))
         ELSE SplitAt(s, i + 1, Append(cur, s[i]), acc)

\* src.splitlines()
splitlines(s) == SplitAt(s, 1, <<>>, <<>>)

\* offsets[k] is the offset splitlines gives line number k (the list of the
\* source is padded with None at index 0 so that line numbers index it; a
\* sequence is indexed from 1 as it is).
get_line_offsets_by_line_no(s) ==
    LET lines == splitlines(s)
        offsets[k \in 1..(Len(lines) + 1)] ==
            IF k = 1 THEN 0 ELSE offsets[k - 1] + Len(lines[k - 1]) + 1
    IN  offsets

\* restsrc.lstrip('\n'): the index of the first character that is kept.
RECURSIVE LStripFrom(_, _)
LStripFrom(s, i) ==
    IF i <= Len(s) /\ s[i] = "N" THEN LStripFrom(s, i + 1) ELSE i

RECURSIVE RStripTo(_, _)
\* restsrc.rstrip(): the index of the last character that is kept.
RStripTo(s, j) ==
    IF j >= 1 /\ IsWhitespace(s[j]) THEN RStripTo(s, j - 1) ELSE j

\* restsrc.lstrip('\n').rstrip()
StripRest(s) ==
    LET t == SubSeq(s, LStripFrom(s, 1), Len(s))
    IN  SubSeq(t, 1, RStripTo(t, Len(t)))

\* ------------------------------------------------- tokenize and ast.parse

\* The physical lines io.StringIO(src).readline returns: text without its
\* "\n", and whether a "\n" ended it.
RECURSIVE ReadLines(_, _, _, _)
ReadLines(s, i, cur, acc) ==
    IF i > Len(s)
    THEN IF cur = <<>> THEN acc ELSE Append(acc, [text |-> cur, nl |-> FALSE])
    ELSE IF s[i] = "N"
         THEN ReadLines(s, i + 1, <<>>, Append(acc, [text |-> cur, nl |-> TRUE]))
         ELSE ReadLines(s, i + 1, Append(cur, s[i]), acc)

PhysicalLines(s) == ReadLines(s, 1, <<>>, <<>>)

RECURSIVE LeadingSpace(_, _)
\* The number of white-space characters a line starts with.
LeadingSpace(line, n) ==
    IF n < Len(line) /\ IsSpace(line[n + 1]) THEN LeadingSpace(line, n + 1) ELSE n

RECURSIVE IndentColumn(_, _, _)
\* The indentation the tokenizer measures: a blank counts one column, a form
\* feed resets the column to zero.
IndentColumn(line, i, col) ==
    IF i > Len(line) \/ ~IsSpace(line[i]) THEN col
    ELSE IndentColumn(line, i + 1, IF line[i] = "F" THEN 0 ELSE col + 1)

RECURSIVE StatementBody(_, _)
\* The tokens of a statement line from index i on, comment and white space
\* left out.
StatementBody(line, i) ==
    IF i > Len(line) \/ line[i] = "#" THEN <<>>
    ELSE IF IsSpace(line[i]) THEN StatementBody(line, i + 1)
    ELSE <<line[i]>> \o StatementBody(line, i + 1)

\* "blank": white space only; "comment": a comment alone; "stmt" otherwise.
LineKind(line) ==
    LET p == LeadingSpace(line, 0)
    IN  IF p = Len(line) THEN "blank"
        ELSE IF line[p + 1] = "#" THEN "comment"
        ELSE "stmt"

\* `import` name (`,` name)*
IsImportStatement(body) ==
    /\ Len(body) >= 2
    /\ Len(body) % 2 = 0
    /\ body[1] = "I"
    /\ \A i \in 2..Len(body) :
          IF i % 2 = 0 THEN body[i] \in Names ELSE body[i] = ","

\* An expression statement: a string literal or an expression token, then
\* expression tokens.
IsExpressionStatement(body) ==
    /\ Len(body) >= 1
    /\ body[1] \in {"x", "D"}
    /\ \A i \in 2..Len(body) : body[i] = "x"

\* ast.parse raises SyntaxError (IndentationError) on an indented statement at
\* module level and on a line that is no statement.
LineParses(line) ==
    \/ LineKind(line) # "stmt"
    \/ /\ IndentColumn(line, 1, 0) = 0
       /\ LET body == StatementBody(line, 1)
          IN  IsImportStatement(body) \/ IsExpressionStatement(body)

ast_parse_ok(s) ==
    \A r \in 1..Len(PhysicalLines(s)) : LineParses(PhysicalLines(s)[r].text)

\* TopLevelImportVisitor: the line numbers of the Import nodes whose
\* col_offset is 0.
TopLevelImportVisitor(s) ==
    LET lines == PhysicalLines(s)
    IN  { r \in 1..Len(lines) :
            /\ LineKind(lines[r].text) = "stmt"
            /\ IsImportStatement(StatementBody(lines[r].text, 1))
            /\ LeadingSpace(lines[r].text, 0) = 0 }

Token(type, srow, scol, erow, ecol) ==
    [token_type |-> type, srow |-> srow, scol |-> scol, erow |-> erow, ecol |-> ecol]

TokenTypeOf(c) ==
    IF c = "D" THEN "STRING" ELSE IF c = "," THEN "OP" ELSE "NAME"

RECURSIVE StatementTokens(_, _, _)
StatementTokens(r, line, i) ==
    IF i > Len(line) THEN <<>>
    ELSE IF IsSpace(line[i]) THEN StatementTokens(r, line, i + 1)
    ELSE IF line[i] = "#" THEN <<Token("COMMENT", r, i - 1, r, Len(line))>>
    ELSE <<Token(TokenTypeOf(line[i]), r, i - 1, r, i)>>
             \o StatementTokens(r, line, i + 1)

\* The tokens of physical line r. A blank line is one NL; a comment line is
\* COMMENT then NL (of width zero when the file ends without "\n"); a
\* statement ends with NEWLINE. For a last line with no "\n" the tokenizer
\* of Python 3.6.7 and later emits the NEWLINE all the same (`implicit`), the
\* tokenizers before it emit none. A white-space only last line with no
\* "\n" has no token.
LineTokens(r, line, nl, implicit) ==
    LET n == Len(line)
        p == LeadingSpace(line, 0)
    IN  IF LineKind(line) = "blank"
        THEN IF nl THEN <<Token("NL", r, p, r, p + 1)>> ELSE <<>>
        ELSE IF LineKind(line) = "comment"
        THEN <<Token("COMMENT", r, p, r, n),
               Token("NL", r, n, r, IF nl THEN n + 1 ELSE n)>>
        ELSE StatementTokens(r, line, 1)
                 \o (IF nl \/ implicit
                     THEN <<Token("NEWLINE", r, n, r, n + 1)>>
                     ELSE <<>>)

RECURSIVE TokensFrom(_, _, _)
TokensFrom(lines, r, implicit) ==
    IF r > Len(lines) THEN <<>>
    ELSE LineTokens(r, lines[r].text, lines[r].nl, implicit)
             \o TokensFrom(lines, r + 1, implicit)

\* tokenize.generate_tokens(io.StringIO(src).readline): ENDMARKER stands on
\* the line after the last one, or on a last line that is white space with no
\* "\n".
generate_tokens(s, implicit) ==
    LET lines == PhysicalLines(s)
        n == Len(lines)
        endrow == IF n > 0 /\ ~lines[n].nl /\ LineKind(lines[n].text) = "blank"
                  THEN n ELSE n + 1
    IN  TokensFrom(lines, 1, implicit) \o <<Token("ENDMARKER", endrow, 0, endrow, 0)>>

\* ------------------------------------------- aspy.refactor_imports objects

RECURSIVE FirstStatement(_, _)
\* The index of the first physical line from r on that holds a statement, 0
\* when there is none.
FirstStatement(lines, r) ==
    IF r > Len(lines) THEN 0
    ELSE IF LineKind(lines[r].text) = "stmt" THEN r
    ELSE FirstStatement(lines, r + 1)

\* import_obj_from_str(s) parses s and takes the first statement of its body,
\* which must be an import; it raises otherwise.
import_obj_parses(s) ==
    LET lines == PhysicalLines(s)
        r == FirstStatement(lines, 1)
    IN  /\ ast_parse_ok(s)
        /\ r # 0
        /\ IsImportStatement(StatementBody(lines[r].text, 1))

\* The import object of a text: the names it imports, in the order written.
\* Two import objects are equal when they import the same names, however the
\* statement was written.
import_obj_from_str(s) ==
    LET lines == PhysicalLines(s)
        body == StatementBody(lines[FirstStatement(lines, 1)].text, 1)
    IN  [i \in 1..(Len(body) \div 2) |-> body[2 * i]]

has_multiple_imports(import_obj) == Len(import_obj) > 1

split_imports(import_obj) == [i \in 1..Len(import_obj) |-> <<import_obj[i]>>]

RECURSIVE NameList(_)
NameList(import_obj) ==
    IF Len(import_obj) = 1 THEN import_obj
    ELSE <<Head(import_obj), ",">> \o NameList(Tail(import_obj))

\* The canonical text of an import object: one line, ended by "\n".
to_text(import_obj) == <<"I">> \o NameList(import_obj) \o <<"N">>

\* ------------------------------------------------------------- partitions

PRE_IMPORT_CODE == "pre_import_code"
IMPORT == "import"
NON_CODE == "non_code"
CODE == "code"

CodePartition(code_type, text) == [code_type |-> code_type, src |-> text]

\* TERMINATES_CODE with the NEWLINE token in it.
TERMINATES_CODE_AtNewline == {"NEWLINE", "ENDMARKER"}

TERMINATES_COMMENT == {"NL", "ENDMARKER"}
TERMINATES_DOCSTRING == {"NEWLINE", "ENDMARKER"}
TERMINATES_IMPORT == {"NEWLINE", "ENDMARKER"}
TERMINATES_CODE == {"ENDMARKER"}

\* ''.join(partition.src for partition in partitions)
JoinSrc(parts) == Concat([i \in 1..Len(parts) |-> parts[i].src])

OfType(parts, code_type) == SelectSeq(parts, LAMBDA p : p.code_type = code_type)

\* Every import partition of the list is text import_obj_from_str accepts.
ImportsParse(parts) ==
    \A i \in 1..Len(parts) :
        parts[i].code_type = IMPORT => import_obj_parses(parts[i].src)

RECURSIVE separate_comma_imports_Reversed(_)
\* separate_comma_imports with the split imports emitted last name first.
separate_comma_imports_Reversed(parts) ==
    IF parts = <<>> THEN <<>>
    ELSE LET partition == Head(parts)
             import_obj == import_obj_from_str(partition.src)
             split == split_imports(import_obj)
             n == Len(split)
         IN  (IF partition.code_type = IMPORT /\ has_multiple_imports(import_obj)
              THEN [i \in 1..n |-> CodePartition(IMPORT, to_text(split[n + 1 - i]))]
              ELSE <<partition>>)
             \o separate_comma_imports_Reversed(Tail(parts))

RECURSIVE separate_comma_imports_FirstOnly(_)
\* separate_comma_imports that keeps the first name of `import a, b` only.
separate_comma_imports_FirstOnly(parts) ==
    IF parts = <<>> THEN <<>>
    ELSE LET partition == Head(parts)
             import_obj == import_obj_from_str(partition.src)
             split == split_imports(import_obj)
         IN  (IF partition.code_type = IMPORT /\ has_multiple_imports(import_obj)
              THEN <<CodePartition(IMPORT, to_text(split[1]))>>
              ELSE <<partition>>)
             \o separate_comma_imports_FirstOnly(Tail(parts))

RECURSIVE separate_comma_imports(_)
separate_comma_imports(parts) ==
    IF parts = <<>> THEN <<>>
    ELSE LET partition == Head(parts)
             import_obj == import_obj_from_str(partition.src)
             split == split_imports(import_obj)
         IN  (IF partition.code_type = IMPORT /\ has_multiple_imports(import_obj)
              THEN [i \in 1..Len(split) |-> CodePartition(IMPORT, to_text(split[i]))]
              ELSE <<partition>>)
             \o separate_comma_imports(Tail(parts))

RECURSIVE RemoveSeen(_, _)
RemoveSeen(parts, seen) ==
    IF parts = <<>> THEN <<>>
    ELSE LET partition == Head(parts)
             import_obj == import_obj_from_str(partition.src)
         IN  IF partition.code_type = IMPORT
             THEN IF import_obj \notin seen
                  THEN <<partition>> \o RemoveSeen(Tail(parts), seen \cup {import_obj})
                  ELSE RemoveSeen(Tail(parts), seen)
             ELSE <<partition>> \o RemoveSeen(Tail(parts), seen)

RECURSIVE RemoveSeenText(_, _)
RemoveSeenText(parts, seen) ==
    IF parts = <<>> THEN <<>>
    ELSE LET partition == Head(parts)
         IN  IF partition.code_type = IMPORT
             THEN IF partition.src \notin seen
                  THEN <<partition>>
                           \o RemoveSeenText(Tail(parts), seen \cup {partition.src})
                  ELSE RemoveSeenText(Tail(parts), seen)
             ELSE <<partition>> \o RemoveSeenText(Tail(parts), seen)

\* remove_duplicated_imports with the text of a partition, not its import
\* object, put into `seen`.
remove_duplicated_imports_ByText(parts) == RemoveSeenText(parts, {})

remove_duplicated_imports(parts) == RemoveSeen(parts, {})

\* ------------------------------------------------- the state of the program

VARIABLES
    contents,                      \* fix_file_contents: the text it is given
    classify,                      \* aspy sort: the block each module belongs to
    implicit_newline,              \* tokenize: a NEWLINE ends a last line that
                                   \* has no "\n" (Python 3.6.7 and later)
    applied,                       \* 1: contents is a source; 2: contents is the
                                   \* text fix_file_contents returned for one
    pc,                            \* where the call of fix_file_contents stands
    error,                         \* the exception that ended it, or "none"
    top_level_import_line_numbers, \* TopLevelImportVisitor
    tokens,                        \* the token stream of partition_source
    next_token,                    \* the index of the token the loop reads next
    chunks,                        \* partition_source
    startpos,
    pending_chunk_type,
    possible_ending_tokens,
    seen_import,
    partitions,                    \* the argument of the step that ran last
    partitioned,                   \* fix_file_contents: the current partitions
    new_contents,                  \* the text fix_file_contents returns
    filenames,                     \* main: args.filenames
    show_diff,                     \* main: args.show_diff
    disk,                          \* the files that exist, and their contents
    read_only,                     \* the files that cannot be opened for writing
    file_index,                    \* main: the position of the loop in filenames
    retv,                          \* main: retv
    returned,                      \* what main returned, <<>> before it returns
    log                            \* what main did, in order: files read,
                                   \* results of fix_file_contents, status lines
                                   \* printed, files written

vars ==
    <<contents, classify, implicit_newline, applied, pc, error,
      top_level_import_line_numbers, tokens, next_token, chunks, startpos, pending_chunk_type,
      possible_ending_tokens, seen_import, partitions, partitioned, new_contents,
      filenames, show_diff, disk, read_only, file_index, retv, returned, log>>

main_vars ==
    <<filenames, show_diff, disk, read_only, file_index, retv, returned, log>>

\* The locals of fix_file_contents and partition_source but contents, pc and
\* error.
call_vars ==
    <<top_level_import_line_numbers, tokens, next_token, chunks, startpos,
      pending_chunk_type, possible_ending_tokens, seen_import, partitions,
      partitioned>>

scan_vars ==
    <<chunks, startpos, pending_chunk_type, possible_ending_tokens, seen_import>>

\* ------------------------------------------------------------ aspy sort()

NameRank(name) == IF name = "a" THEN 1 ELSE 2

RECURSIVE SortsBefore(_, _)
\* The order of import objects inside a block: by module name, name by name.
SortsBefore(x, y) ==
    IF x = <<>> THEN TRUE
    ELSE IF y = <<>> THEN FALSE
    ELSE IF Head(x) # Head(y) THEN NameRank(Head(x)) < NameRank(Head(y))
    ELSE SortsBefore(Tail(x), Tail(y))

RECURSIVE Sorted(_)
Sorted(objs) ==
    IF objs = {} THEN <<>>
    ELSE LET first == CHOOSE x \in objs : \A y \in objs : SortsBefore(x, y)
         IN  <<first>> \o Sorted(objs \ {first})

\* The blocks a module can belong to, in the order sort() returns them.
Blocks == {1, 2}

\* sort(imports): the import objects of each block in order, the blocks in
\* order, a block that holds nothing left out.
sort(import_objs) ==
    LET block(k) == Sorted({o \in import_objs : classify[Head(o)] = k})
    IN  SelectSeq(<<block(1), block(2)>>, LAMBDA b : b # <<>>)

\* ------------------------------------------------- apply_import_sorting

\* dict((import_obj_from_str(partition.src), partition) for partition in
\* imports)[import_obj]: of several partitions with one key the last stays.
import_obj_to_partition(imports, import_obj) ==
    LET at == { i \in 1..Len(imports) : import_obj_from_str(imports[i].src) = import_obj }
    IN  imports[CHOOSE i \in at : \A j \in at : j <= i]

RECURSIVE EmitBlocks(_, _)
\* The loop over sorted_blocks: the partitions of each block, then a separator.
EmitBlocks(imports, sorted_blocks) ==
    IF sorted_blocks = <<>> THEN <<>>
    ELSE LET block == Head(sorted_blocks)
         IN  [i \in 1..Len(block) |-> import_obj_to_partition(imports, block[i])]
             \o <<CodePartition(NON_CODE, <<"N">>)>>
             \o EmitBlocks(imports, Tail(sorted_blocks))

\* NewImports with new_imports.pop() left out.
NewImports_NoPop(imports) ==
    LET keys == { import_obj_from_str(imports[i].src) : i \in 1..Len(imports) }
    IN  EmitBlocks(imports, sort(keys))

\* new_imports, the last separator popped.
NewImports(imports) ==
    LET keys == { import_obj_from_str(imports[i].src) : i \in 1..Len(imports) }
        new_imports == EmitBlocks(imports, sort(keys))
    IN  IF new_imports # <<>>
        THEN SubSeq(new_imports, 1, Len(new_imports) - 1)
        ELSE new_imports

\* NewRest with one line break in front of the code.
NewRest_OneLineBreak(rest) ==
    LET restsrc == StripRest(JoinSrc(rest))
    IN  IF restsrc # <<>>
        THEN <<CodePartition(NON_CODE, <<"N">>),
               CodePartition(CODE, restsrc \o <<"N">>)>>
        ELSE <<>>

\* NewRest that keeps the Code regions as they are, behind two line breaks.
NewRest_AsItIs(rest) ==
    IF rest # <<>>
    THEN <<CodePartition(NON_CODE, <<"N", "N">>)>> \o rest
    ELSE <<>>

\* rest: the code, joined and stripped, behind two line breaks.
NewRest(rest) ==
    LET restsrc == StripRest(JoinSrc(rest))
    IN  IF restsrc # <<>>
        THEN <<CodePartition(NON_CODE, <<"N", "N">>),
               CodePartition(CODE, restsrc \o <<"N">>)>>
        ELSE <<>>

\* apply_import_sorting returning rest + new_imports + pre_import_code.
apply_import_sorting_RestFirst(parts) ==
    NewRest(OfType(parts, CODE))
        \o NewImports(OfType(parts, IMPORT))
        \o OfType(parts, PRE_IMPORT_CODE)

\* apply_import_sorting with the trash bucket returned as well.
apply_import_sorting_KeepsTrash(parts) ==
    OfType(parts, PRE_IMPORT_CODE)
        \o NewImports(OfType(parts, IMPORT))
        \o OfType(parts, NON_CODE)
        \o NewRest(OfType(parts, CODE))

apply_import_sorting(parts) ==
    OfType(parts, PRE_IMPORT_CODE)
        \o NewImports(OfType(parts, IMPORT))
        \o NewRest(OfType(parts, CODE))

\* ---------------------------------------------------------------- sources

\* The lines a source is made of.
SourceLines ==
    { <<"N">>,                          \* an empty line
      <<"S", "N">>,                     \* a line of white space
      <<"#", "N">>,                     \* a comment
      <<"#", "F", "N">>,                \* a comment that holds a form feed
      <<"D", "N">>,                     \* a docstring
      <<"D", "x", "N">>,                \* a statement that starts with a string
      <<"x", "N">>,                     \* a statement
      <<"I", "a", "N">>,                \* import a
      <<"I", "b", "N">>,                \* import b
      <<"I", "b", "#", "N">>,           \* import b  # comment
      <<"I", "a", ",", "b", "N">> }     \* import a, b

RECURSIVE SourcesOf(_)
\* The texts of exactly n lines.
SourcesOf(n) ==
    IF n = 0 THEN {<<>>}
    ELSE { line \o s : line \in SourceLines, s \in SourcesOf(n - 1) }

\* A source: up to MaxLines lines, the last one with or without its "\n".
Sources ==
    LET whole == UNION { SourcesOf(n) : n \in 0..MaxLines }
    IN  whole \cup { SubSeq(s, 1, Len(s) - 1) : s \in whole \ {<<>>} }

\* "import b\nimport a\n\nprint('hi')\n"
ScenarioUnsorted == <<"I", "b", "N", "I", "a", "N", "N", "x", "N">>

\* '"""doc"""\nimport a, b\n'
ScenarioDocstring == <<"D", "N", "I", "a", ",", "b", "N">>

\* "import a\n\n\nx = 1\n"
ScenarioLaidOut == <<"I", "a", "N", "N", "N", "x", "N">>

\* A comment, a docstring, an empty line, `import b  # comment`,
\* `import a, b`, a comment and a statement.
ScenarioEverything ==
    <<"#", "N", "D", "N", "N", "I", "b", "#", "N", "I", "a", ",", "b", "N",
      "#", "N", "x", "N">>

\* "#\x0cxx\n#\n": a comment that holds a form feed and more, then a comment.
ScenarioFormFeed == <<"#", "F", "x", "x", "N", "#", "N">>

\* A docstring, `import a`, a statement, `import b`.
ScenarioLateImport == <<"D", "N", "I", "a", "N", "x", "N", "I", "b", "N">>

\* Longer sources of particular interest.
Scenarios ==
    {ScenarioUnsorted, ScenarioDocstring, ScenarioLaidOut, ScenarioEverything,
     ScenarioFormFeed, ScenarioLateImport}

\* ------------------------------------------------------------------ actions

\* The tokenizers tokenize may be: the two generations differ only on a
\* source whose last line holds a statement and has no "\n".
Tokenizers(s) ==
    LET lines == PhysicalLines(s)
        n == Len(lines)
    IN  IF n > 0 /\ ~lines[n].nl /\ LineKind(lines[n].text) = "stmt"
        THEN BOOLEAN
        ELSE {TRUE}

Init ==
    /\ contents \in Sources \cup Scenarios
    /\ classify \in [Names -> Blocks]
    /\ implicit_newline \in Tokenizers(contents)
    /\ applied = 1
    /\ pc = "parse"
    /\ error = "none"
    /\ top_level_import_line_numbers = {}
    /\ tokens = <<>>
    /\ next_token = 1
    /\ chunks = <<>>
    /\ startpos = 0
    /\ pending_chunk_type = "None"
    /\ possible_ending_tokens = {}
    /\ seen_import = FALSE
    /\ partitions = <<>>
    /\ partitioned = <<>>
    /\ new_contents = <<>>
    /\ filenames = <<>>
    /\ show_diff = FALSE
    /\ disk = <<>>
    /\ read_only = {}
    /\ file_index = 1
    /\ retv = 0
    /\ returned = <<>>
    /\ log = <<>>

\* partition_source up to its loop: ast.parse, the visitor, the token stream.
ParseSource ==
    /\ pc = "parse"
    /\ ast_parse_ok(contents)
    /\ top_level_import_line_numbers' = TopLevelImportVisitor(contents)
    /\ tokens' = generate_tokens(contents, implicit_newline)
    /\ next_token' = 1
    /\ chunks' = <<>>
    /\ startpos' = 0
    /\ pending_chunk_type' = "None"
    /\ possible_ending_tokens' = {}
    /\ seen_import' = FALSE
    /\ pc' = "scan"
    /\ UNCHANGED <<contents, classify, implicit_newline, applied, error, partitions, partitioned,
                   new_contents>>
    /\ UNCHANGED main_vars

\* ast.parse raises SyntaxError.
ParseFails ==
    /\ pc = "parse"
    /\ ~ast_parse_ok(contents)
    /\ pc' = "raised"
    /\ error' = "SyntaxError"
    /\ UNCHANGED <<contents, classify, implicit_newline, applied, top_level_import_line_numbers,
                   tokens, next_token, partitions, partitioned, new_contents>>
    /\ UNCHANGED scan_vars
    /\ UNCHANGED main_vars

\* The token the loop of partition_source reads.
Scanning == pc = "scan" /\ next_token <= Len(tokens)

token == tokens[next_token]

Idle == pending_chunk_type = "None"

\* The loop goes to the next token; nothing but the partitioner's locals moves.
NextToken ==
    /\ next_token' = next_token + 1
    /\ UNCHANGED <<contents, classify, implicit_newline, applied, pc, error,
                   top_level_import_line_numbers, tokens, partitions, partitioned,
                   new_contents>>
    /\ UNCHANGED main_vars

\* endpos = line_offsets[erow] + ecol
EndPos == get_line_offsets_by_line_no(contents)[token.erow] + token.ecol

\* srctext = src[startpos:endpos]; startpos = endpos;
\* chunks.append(CodePartition(code_type, srctext))
AppendChunk(code_type) ==
    /\ chunks' = Append(chunks, CodePartition(code_type, Slice(contents, startpos, EndPos)))
    /\ startpos' = EndPos

IsPreImportComment == ~seen_import /\ token.token_type = "COMMENT"
IsDocstring == ~seen_import /\ token.token_type = "STRING"
IsTopLevelImport == token.scol = 0 /\ token.srow \in top_level_import_line_numbers

\* if not seen_import and token_type == tokenize.COMMENT
StartPreImportComment ==
    /\ Scanning /\ Idle
    /\ IsPreImportComment
    /\ pending_chunk_type' = PRE_IMPORT_CODE
    /\ possible_ending_tokens' = TERMINATES_COMMENT
    /\ UNCHANGED <<chunks, startpos, seen_import>>
    /\ NextToken

\* elif not seen_import and token_type == tokenize.STRING
StartDocstring ==
    /\ Scanning /\ Idle
    /\ ~IsPreImportComment
    /\ IsDocstring
    /\ pending_chunk_type' = PRE_IMPORT_CODE
    /\ possible_ending_tokens' = TERMINATES_DOCSTRING
    /\ UNCHANGED <<chunks, startpos, seen_import>>
    /\ NextToken

\* StartImport with seen_import left as it is.
StartImport_NoFlag ==
    /\ Scanning /\ Idle
    /\ ~IsPreImportComment /\ ~IsDocstring
    /\ IsTopLevelImport
    /\ pending_chunk_type' = IMPORT
    /\ possible_ending_tokens' = TERMINATES_IMPORT
    /\ UNCHANGED <<chunks, startpos, seen_import>>
    /\ NextToken

\* elif scol == 0 and srow in visitor.top_level_import_line_numbers
StartImport ==
    /\ Scanning /\ Idle
    /\ ~IsPreImportComment /\ ~IsDocstring
    /\ IsTopLevelImport
    /\ seen_import' = TRUE
    /\ pending_chunk_type' = IMPORT
    /\ possible_ending_tokens' = TERMINATES_IMPORT
    /\ UNCHANGED <<chunks, startpos>>
    /\ NextToken

\* elif token_type == tokenize.NL
EmitNonCode ==
    /\ Scanning /\ Idle
    /\ ~IsPreImportComment /\ ~IsDocstring /\ ~IsTopLevelImport
    /\ token.token_type = "NL"
    /\ AppendChunk(NON_CODE)
    /\ UNCHANGED <<pending_chunk_type, possible_ending_tokens, seen_import>>
    /\ NextToken

\* elif token_type == tokenize.COMMENT
StartCodeComment ==
    /\ Scanning /\ Idle
    /\ ~IsPreImportComment /\ ~IsDocstring /\ ~IsTopLevelImport
    /\ token.token_type = "COMMENT"
    /\ pending_chunk_type' = CODE
    /\ possible_ending_tokens' = TERMINATES_COMMENT
    /\ UNCHANGED <<chunks, startpos, seen_import>>
    /\ NextToken

\* elif token_type == tokenize.ENDMARKER: pass
EndMarkerWhileIdle ==
    /\ Scanning /\ Idle
    /\ ~IsPreImportComment /\ ~IsDocstring /\ ~IsTopLevelImport
    /\ token.token_type = "ENDMARKER"
    /\ UNCHANGED scan_vars
    /\ NextToken

\* else
StartCode ==
    /\ Scanning /\ Idle
    /\ ~IsPreImportComment /\ ~IsDocstring /\ ~IsTopLevelImport
    /\ token.token_type \notin {"NL", "COMMENT", "ENDMARKER"}
    /\ pending_chunk_type' = CODE
    /\ possible_ending_tokens' = TERMINATES_CODE
    /\ UNCHANGED <<chunks, startpos, seen_import>>
    /\ NextToken

\* elif token_type in possible_ending_tokens
CloseChunk ==
    /\ Scanning /\ ~Idle
    /\ token.token_type \in possible_ending_tokens
    /\ AppendChunk(pending_chunk_type)
    /\ pending_chunk_type' = "None"
    /\ possible_ending_tokens' = {}
    /\ UNCHANGED seen_import
    /\ NextToken

\* A token inside the pending chunk: no branch of the loop body is taken.
SkipToken ==
    /\ Scanning /\ ~Idle
    /\ token.token_type \notin possible_ending_tokens
    /\ UNCHANGED scan_vars
    /\ NextToken

\* assert ''.join(partition.src for partition in chunks) == src
Reconstructs == JoinSrc(chunks) = contents

\* ReturnChunks with the assertion left out.
ReturnChunks_NoAssert ==
    /\ pc = "scan" /\ next_token > Len(tokens)
    /\ partitioned' = chunks
    /\ pc' = "separate"
    /\ UNCHANGED <<contents, classify, implicit_newline, applied, error,
                   top_level_import_line_numbers, tokens, next_token, partitions,
                   new_contents>>
    /\ UNCHANGED scan_vars
    /\ UNCHANGED main_vars

\* The loop is over and the assertion holds: partition_source returns chunks.
ReturnChunks ==
    /\ pc = "scan" /\ next_token > Len(tokens)
    /\ Reconstructs
    /\ partitioned' = chunks
    /\ pc' = "separate"
    /\ UNCHANGED <<contents, classify, implicit_newline, applied, error,
                   top_level_import_line_numbers, tokens, next_token, partitions,
                   new_contents>>
    /\ UNCHANGED scan_vars
    /\ UNCHANGED main_vars

\* The loop is over and the assertion fails: AssertionError.
AssertionFails ==
    /\ pc = "scan" /\ next_token > Len(tokens)
    /\ ~Reconstructs
    /\ pc' = "raised"
    /\ error' = "AssertionError"
    /\ UNCHANGED <<contents, classify, implicit_newline, applied, top_level_import_line_numbers,
                   tokens, next_token, partitions, partitioned, new_contents>>
    /\ UNCHANGED scan_vars
    /\ UNCHANGED main_vars

\* One step of STEPS: partitioned = step(partitioned). import_obj_from_str
\* raises on an import partition it cannot parse.
Step(at, step_result, then) ==
    /\ pc = at
    /\ partitions' = partitioned
    /\ IF ImportsParse(partitioned)
       THEN /\ partitioned' = step_result
            /\ pc' = then
            /\ error' = error
       ELSE /\ partitioned' = partitioned
            /\ pc' = "raised"
            /\ error' = "ImportError"
    /\ UNCHANGED <<contents, classify, implicit_newline, applied, top_level_import_line_numbers,
                   tokens, next_token, new_contents>>
    /\ UNCHANGED scan_vars
    /\ UNCHANGED main_vars

SeparateCommaImports ==
    Step("separate", separate_comma_imports(partitioned), "dedupe")

RemoveDuplicatedImports ==
    Step("dedupe", remove_duplicated_imports(partitioned), "sort")

ApplyImportSorting ==
    Step("sort", apply_import_sorting(partitioned), "join")

\* return ''.join(part.src for part in partitioned)
ReturnContents ==
    /\ pc = "join"
    /\ new_contents' = JoinSrc(partitioned)
    /\ pc' = "done"
    /\ UNCHANGED <<contents, classify, implicit_newline, applied, error,
                   top_level_import_line_numbers, tokens, next_token, partitions,
                   partitioned>>
    /\ UNCHANGED scan_vars
    /\ UNCHANGED main_vars

\* fix_file_contents is called on the text it returned.
ApplyAgain ==
    /\ pc = "done" /\ applied = 1
    /\ contents' = new_contents
    /\ applied' = 2
    /\ pc' = "parse"
    /\ UNCHANGED <<classify, implicit_newline, error, top_level_import_line_numbers, tokens,
                   next_token, partitions, partitioned, new_contents>>
    /\ UNCHANGED scan_vars
    /\ UNCHANGED main_vars

Next ==
    \/ ParseSource
    \/ ParseFails
    \/ StartPreImportComment
    \/ StartDocstring
    \/ StartImport
    \/ EmitNonCode
    \/ StartCodeComment
    \/ EndMarkerWhileIdle
    \/ StartCode
    \/ CloseChunk
    \/ SkipToken
    \/ ReturnChunks
    \/ AssertionFails
    \/ SeparateCommaImports
    \/ RemoveDuplicatedImports
    \/ ApplyImportSorting
    \/ ReturnContents
    \/ ApplyAgain

Spec == Init /\ [][Next]_vars

\* --------------------------------------------------------------------- main

\* The file names main can be given.
Files == {"f", "g"}

\* " x\n": ast.parse raises IndentationError.
TextIndented == <<"S", "x", "N">>

\* " ": the tokenizer has no token for it and the assertion of
\* partition_source fails.
TextBlank == <<"S">>

\* What a file can hold.
FileTexts ==
    {ScenarioLaidOut, ScenarioEverything, ScenarioDocstring, TextIndented,
     TextBlank}

RECURSIVE FileLists(_)
\* The lists of at most n file names; a name may come more than once.
FileLists(n) ==
    IF n = 0 THEN {<<>>}
    ELSE {<<>>} \cup { <<f>> \o rest : f \in Files, rest \in FileLists(n - 1) }

\* main after parse_args and retv = 0. The names need not be files that
\* exist, and a file that exists need not be writable.
MainInit ==
    /\ filenames \in FileLists(MaxFiles)
    /\ show_diff \in BOOLEAN
    /\ disk \in UNION { [existing -> FileTexts] : existing \in SUBSET Files }
    /\ read_only \in SUBSET (DOMAIN disk)
    /\ file_index = 1
    /\ retv = 0
    /\ returned = <<>>
    /\ log = <<>>
    /\ classify \in [Names -> Blocks]
    /\ implicit_newline \in UNION { Tokenizers(text) : text \in FileTexts }
    /\ applied = 1
    /\ pc = "open"
    /\ error = "none"
    /\ contents = <<>>
    /\ top_level_import_line_numbers = {}
    /\ tokens = <<>>
    /\ next_token = 1
    /\ chunks = <<>>
    /\ startpos = 0
    /\ pending_chunk_type = "None"
    /\ possible_ending_tokens = {}
    /\ seen_import = FALSE
    /\ partitions = <<>>
    /\ partitioned = <<>>
    /\ new_contents = <<>>

\* for filename in args.filenames
filename == filenames[file_index]

InLoop == file_index <= Len(filenames)

\* One thing main did.
Event(op, name, text) == [op |-> op, filename |-> name, text |-> text]

\* contents = io.open(filename).read(); fix_file_contents(contents) is called.
OpenFile ==
    /\ pc = "open" /\ InLoop
    /\ filename \in DOMAIN disk
    /\ contents' = disk[filename]
    /\ log' = Append(log, Event("read", filename, disk[filename]))
    /\ pc' = "parse"
    /\ UNCHANGED <<classify, implicit_newline, applied, error, new_contents,
                   filenames, show_diff, disk, read_only, file_index, retv,
                   returned>>
    /\ UNCHANGED call_vars

\* ReadFails that goes on with the next file.
ReadFails_Continues ==
    /\ pc = "open" /\ InLoop
    /\ filename \notin DOMAIN disk
    /\ file_index' = file_index + 1
    /\ UNCHANGED <<contents, classify, implicit_newline, applied, pc, error,
                   new_contents, filenames, show_diff, disk, read_only, retv,
                   returned, log>>
    /\ UNCHANGED call_vars

\* io.open(filename) raises: there is no such file.
ReadFails ==
    /\ pc = "open" /\ InLoop
    /\ filename \notin DOMAIN disk
    /\ pc' = "raised"
    /\ error' = "IOError"
    /\ UNCHANGED <<contents, classify, implicit_newline, applied, new_contents>>
    /\ UNCHANGED main_vars
    /\ UNCHANGED call_vars

\* fix_file_contents has returned to main.
FixReturned == pc = "done" /\ InLoop

\* The loop goes to the next file.
NextFile ==
    /\ file_index' = file_index + 1
    /\ pc' = "open"
    /\ UNCHANGED <<contents, classify, implicit_newline, applied, error,
                   new_contents, filenames, show_diff, read_only, returned>>
    /\ UNCHANGED call_vars

\* FileUnchanged that sets retv back to 0.
FileUnchanged_ResetsRetv ==
    /\ FixReturned
    /\ contents = new_contents
    /\ retv' = 0
    /\ log' = Append(log, Event("fixed", filename, new_contents))
    /\ UNCHANGED disk
    /\ NextFile

\* contents != new_contents is false: nothing is done for the file.
FileUnchanged ==
    /\ FixReturned
    /\ contents = new_contents
    /\ log' = Append(log, Event("fixed", filename, new_contents))
    /\ UNCHANGED <<retv, disk>>
    /\ NextFile

\* ShowDiff that writes the file as well.
ShowDiff_Writes ==
    /\ FixReturned
    /\ contents # new_contents
    /\ show_diff
    /\ retv' = 1
    /\ disk' = [disk EXCEPT ![filename] = new_contents]
    /\ log' = log \o <<Event("fixed", filename, new_contents),
                       Event("print Showing diff for", filename, <<>>),
                       Event("write", filename, new_contents)>>
    /\ NextFile

\* if args.show_diff: the status line and the diff are printed.
ShowDiff ==
    /\ FixReturned
    /\ contents # new_contents
    /\ show_diff
    /\ retv' = 1
    /\ log' = log \o <<Event("fixed", filename, new_contents),
                       Event("print Showing diff for", filename, <<>>)>>
    /\ UNCHANGED disk
    /\ NextFile

\* else: the status line is printed and the file is written.
WriteFile ==
    /\ FixReturned
    /\ contents # new_contents
    /\ ~show_diff
    /\ filename \notin read_only
    /\ retv' = 1
    /\ disk' = [disk EXCEPT ![filename] = new_contents]
    /\ log' = log \o <<Event("fixed", filename, new_contents),
                       Event("print Reordering imports in", filename, <<>>),
                       Event("write", filename, new_contents)>>
    /\ NextFile

\* else: the status line is printed and io.open(filename, 'w') raises.
WriteFails ==
    /\ FixReturned
    /\ contents # new_contents
    /\ ~show_diff
    /\ filename \in read_only
    /\ retv' = 1
    /\ log' = log \o <<Event("fixed", filename, new_contents),
                       Event("print Reordering imports in", filename, <<>>)>>
    /\ pc' = "raised"
    /\ error' = "IOError"
    /\ UNCHANGED <<contents, classify, implicit_newline, applied, new_contents,
                   filenames, show_diff, disk, read_only, file_index, returned>>
    /\ UNCHANGED call_vars

\* return retv
ReturnRetv ==
    /\ pc = "open" /\ ~InLoop
    /\ returned' = <<retv>>
    /\ pc' = "returned"
    /\ UNCHANGED <<contents, classify, implicit_newline, applied, error,
                   new_contents, filenames, show_diff, disk, read_only,
                   file_index, retv, log>>
    /\ UNCHANGED call_vars

MainNext ==
    \/ OpenFile
    \/ ReadFails
    \/ ParseSource
    \/ ParseFails
    \/ StartPreImportComment
    \/ StartDocstring
    \/ StartImport
    \/ EmitNonCode
    \/ StartCodeComment
    \/ EndMarkerWhileIdle
    \/ StartCode
    \/ CloseChunk
    \/ SkipToken
    \/ ReturnChunks
    \/ AssertionFails
    \/ SeparateCommaImports
    \/ RemoveDuplicatedImports
    \/ ApplyImportSorting
    \/ ReturnContents
    \/ FileUnchanged
    \/ ShowDiff
    \/ WriteFile
    \/ WriteFails
    \/ ReturnRetv

MainSpec == MainInit /\ [][MainNext]_vars

\* ------------------------------------------------------------------ claims

\* partition_source has returned its chunks for the text in `contents`.
Partitioned == pc \in {"separate", "dedupe", "sort", "join", "done"}

\* fix_file_contents has returned for a source.
Fixed == applied = 1 /\ pc = "done"

HasType(parts, code_type) == \E i \in 1..Len(parts) : parts[i].code_type = code_type

\* The indices of the import partitions of a list.
ImportsAt(parts) == { i \in 1..Len(parts) : parts[i].code_type = IMPORT }

\* The import object of partition i.
ObjAt(parts, i) == import_obj_from_str(parts[i].src)

\* C1: whenever partition_source returns, the texts of the chunks it
\* returns, joined in order, are the source, character for character.
C1_Reconstruction == Partitioned => JoinSrc(chunks) = contents

\* C1 witness: partition_source returned several chunks, an import and a
\* blank line among them, for a source whose last line has no "\n".
C1_Witness ==
    /\ pc = "separate"
    /\ Len(chunks) >= 3
    /\ HasType(chunks, IMPORT) /\ HasType(chunks, NON_CODE)
    /\ contents[Len(contents)] # "N"

\* C2: fix_file_contents applied to a text it returned succeeds and returns
\* that text.
C2_Idempotence ==
    (applied = 2 /\ pc \in {"done", "raised"}) =>
        (pc = "done" /\ new_contents = contents)

\* The import objects of a list of partitions.
ImportObjSet(parts) == { ObjAt(parts, i) : i \in ImportsAt(parts) }

\* The import objects of the import partitions, in the order of the list.
ImportObjSeq(parts) ==
    LET imports == OfType(parts, IMPORT)
    IN  [i \in 1..Len(imports) |-> import_obj_from_str(imports[i].src)]

\* The block, among those sort() returns for the imports of the list, that
\* holds the import of partition i.
BlockOf(parts, i) ==
    LET blocks == sort(ImportObjSet(parts))
    IN  CHOOSE k \in 1..Len(blocks) :
            \E j \in 1..Len(blocks[k]) : blocks[k][j] = ObjAt(parts, i)

Separator == CodePartition(NON_CODE, <<"N">>)

\* Two import partitions with no import partition between them are next to
\* each other when they are of one block, and have exactly one "\n"
\* separator between them when they are of two.
ImportsLaidOut(parts) ==
    \A p, q \in ImportsAt(parts) :
        (p < q /\ ~\E r \in ImportsAt(parts) : p < r /\ r < q) =>
            IF BlockOf(parts, p) = BlockOf(parts, q)
            THEN q = p + 1
            ELSE q = p + 2 /\ parts[p + 1] = Separator

\* The imports are one per statement, no two the same, in the order and the
\* blocks sort() returns.
ImportsAlreadySorted(parts) ==
    /\ \A i \in ImportsAt(parts) : Len(ObjAt(parts, i)) = 1
    /\ \A i, j \in ImportsAt(parts) : i # j => ObjAt(parts, i) # ObjAt(parts, j)
    /\ ImportObjSeq(parts) = Concat(sort(ImportObjSet(parts)))
    /\ ImportsLaidOut(parts)

Max(set) == CHOOSE m \in set : \A k \in set : k <= m
Min(set) == CHOOSE m \in set : \A k \in set : m <= k

\* What stands around the imports is laid out as apply_import_sorting writes
\* it: the pre-import partitions first and the imports right after them;
\* after the last import either nothing, or two empty lines and then code
\* only, which ends with one "\n" and no white space before it.
SurroundingsLaidOut(parts) ==
    LET n == Len(parts)
        npre == Cardinality({ i \in 1..n : parts[i].code_type = PRE_IMPORT_CODE })
        last == IF ImportsAt(parts) = {} THEN npre ELSE Max(ImportsAt(parts))
        code == JoinSrc(SubSeq(parts, last + 3, n))
    IN  /\ \A i \in 1..npre : parts[i].code_type = PRE_IMPORT_CODE
        /\ ImportsAt(parts) # {} => Min(ImportsAt(parts)) = npre + 1
        /\ \/ n = last
           \/ /\ n >= last + 3
              /\ parts[last + 1] = Separator
              /\ parts[last + 2] = Separator
              /\ \A i \in (last + 3)..n : parts[i].code_type = CODE
              /\ Len(code) >= 2
              /\ code[1] # "N"
              /\ code[Len(code)] = "N"
              /\ ~IsWhitespace(code[Len(code) - 1])

\* C3 as claimed: a source whose imports are one per statement, without
\* duplicates and in the order and blocks of the sorter is returned
\* unchanged, whatever else it holds.
C3_NoOpStability ==
    (Fixed /\ HasType(chunks, IMPORT) /\ ImportsAlreadySorted(chunks)) =>
        new_contents = contents

\* C3: such a source is returned unchanged when what stands around its
\* imports is laid out as the pass writes it: no blank line and no comment
\* before or between the imports but the one empty line between blocks, and
\* the code, if any, after exactly two empty lines and ended by one newline.
C3_NoOpStabilityLaidOut ==
    (Fixed /\ ImportsAlreadySorted(chunks) /\ SurroundingsLaidOut(chunks)) =>
        new_contents = contents

\* C3 witness: a laid-out source with an import and code was fixed.
C3_Witness ==
    /\ Fixed
    /\ ImportsAlreadySorted(chunks) /\ SurroundingsLaidOut(chunks)
    /\ HasType(chunks, IMPORT) /\ HasType(chunks, CODE)

\* C4: a source with no top-level import (here, as in the example
\* "x = 1\n", one that holds a statement and ends with a newline) has no
\* Import region and is returned unchanged.
C4_NoImportsNoOp ==
    (/\ Fixed
     /\ top_level_import_line_numbers = {}
     /\ HasType(chunks, CODE)
     /\ contents[Len(contents)] = "N") =>
        (~HasType(chunks, IMPORT) /\ new_contents = contents)

RECURSIVE TrailingNewlines(_)
\* The newline characters a text ends with.
TrailingNewlines(text) ==
    IF text # <<>> /\ text[Len(text)] = "N"
    THEN Append(TrailingNewlines(SubSeq(text, 1, Len(text) - 1)), "N")
    ELSE <<>>

RECURSIVE LeadingNewlines(_)
LeadingNewlines(text) ==
    IF text # <<>> /\ Head(text) = "N"
    THEN <<"N">> \o LeadingNewlines(Tail(text))
    ELSE <<>>

\* The output has an import section followed by code.
ImportsThenCode(parts) ==
    /\ HasType(parts, IMPORT)
    /\ parts[Len(parts)].code_type = CODE

\* What the output holds between the last import region and the code region.
Gap(parts) == JoinSrc(SubSeq(parts, Max(ImportsAt(parts)) + 1, Len(parts) - 1))

\* The newline characters between the text of the last import statement and
\* the first character of the code.
Separation(parts) ==
    TrailingNewlines(parts[Max(ImportsAt(parts))].src)
        \o Gap(parts)
        \o LeadingNewlines(parts[Len(parts)].src)

\* The single block [a, b].
OneBlock == classify["a"] = classify["b"]

\* C5 as claimed: exactly two newline characters separate the last import
\* statement's text from the code, and the scenario yields
\* "import a\nimport b\n\nprint('hi')\n".
C5_TwoNewlines ==
    /\ (Fixed /\ ImportsThenCode(partitioned)) =>
           Separation(partitioned) = <<"N", "N">>
    /\ (Fixed /\ contents = ScenarioUnsorted /\ OneBlock) =>
           new_contents = <<"I", "a", "N", "I", "b", "N", "N", "x", "N">>

\* C5: exactly two newline characters stand between the last Import region
\* and the code, which does not start with a newline; they follow the line
\* end of an Import region that has one, three newline characters in all, and
\* the scenario yields "import a\nimport b\n\n\nprint('hi')\n".
C5_TwoNewlinesAfterImportLine ==
    /\ (Fixed /\ ImportsThenCode(partitioned)) =>
           LET last == partitioned[Max(ImportsAt(partitioned))].src
           IN  /\ Gap(partitioned) = <<"N", "N">>
               /\ LeadingNewlines(partitioned[Len(partitioned)].src) = <<>>
               /\ last[Len(last)] = "N" =>
                      Separation(partitioned) = <<"N", "N", "N">>
    /\ (Fixed /\ contents = ScenarioUnsorted /\ OneBlock) =>
           new_contents = <<"I", "a", "N", "I", "b", "N", "N", "N", "x", "N">>

\* C5 witness: the scenario was fixed with the single block [a, b].
C5_Witness ==
    /\ Fixed /\ contents = ScenarioUnsorted /\ OneBlock
    /\ ImportsThenCode(partitioned)

RECURSIVE KeptOf(_, _, _)
\* The partitions of a list whose index is in `kept`, in the order of the list.
KeptOf(parts, kept, i) ==
    IF i > Len(parts) THEN <<>>
    ELSE (IF i \in kept THEN <<parts[i]>> ELSE <<>>) \o KeptOf(parts, kept, i + 1)

\* The partitions that are no import, and of the import partitions with one
\* import object the first.
FirstOccurrences(parts) ==
    { i \in 1..Len(parts) :
        parts[i].code_type = IMPORT =>
            \A j \in ImportsAt(parts) : j < i => ObjAt(parts, j) # ObjAt(parts, i) }

\* C6: after remove_duplicated_imports no two Import regions have the same
\* import object; what is left is the list it was given without the Import
\* regions that repeat the import object of an earlier one, in the same
\* order, every other region kept.
C6_Deduplication ==
    pc = "sort" =>
        /\ \A i, j \in ImportsAt(partitioned) :
               i # j => ObjAt(partitioned, i) # ObjAt(partitioned, j)
        /\ partitioned = KeptOf(partitions, FirstOccurrences(partitions), 1)

\* C6 witness: remove_duplicated_imports dropped an Import region whose text
\* differs from the text of the earlier region with its import object, from a
\* list that holds other regions too.
C6_Witness ==
    /\ pc = "sort"
    /\ \E i, j \in ImportsAt(partitions) :
           /\ i < j
           /\ ObjAt(partitions, i) = ObjAt(partitions, j)
           /\ partitions[i].src # partitions[j].src
    /\ Len(partitioned) < Len(partitions)
    /\ HasType(partitions, CODE) /\ HasType(partitions, NON_CODE)

\* The regions separate_comma_imports writes for one region.
WidthOf(partition) ==
    IF partition.code_type = IMPORT
       /\ Len(import_obj_from_str(partition.src)) > 1
    THEN Len(import_obj_from_str(partition.src))
    ELSE 1

RECURSIVE PlaceOf(_, _)
\* Where the regions written for region i start.
PlaceOf(parts, i) ==
    IF i = 1 THEN 1 ELSE PlaceOf(parts, i - 1) + WidthOf(parts[i - 1])

\* C7: separate_comma_imports puts, in the place of each Import region that
\* names k > 1 imports, k Import regions, one per name in the order written,
\* and leaves every other region as it is and where it is.
C7_CommaSplitting ==
    pc = "dedupe" =>
        /\ Len(partitioned) = PlaceOf(partitions, Len(partitions) + 1) - 1
        /\ \A i \in 1..Len(partitions) :
               LET at == PlaceOf(partitions, i)
                   names == import_obj_from_str(partitions[i].src)
               IN  IF WidthOf(partitions[i]) > 1
                   THEN \A n \in 1..Len(names) :
                            partitioned[at + n - 1] =
                                CodePartition(IMPORT, <<"I", names[n], "N">>)
                   ELSE partitioned[at] = partitions[i]

\* C7 witness: separate_comma_imports split `import a, b` in a list that
\* holds a one-name import and other regions.
C7_Witness ==
    /\ pc = "dedupe"
    /\ \E i \in 1..Len(partitions) : WidthOf(partitions[i]) = 2
    /\ \E i \in ImportsAt(partitions) : WidthOf(partitions[i]) = 1
    /\ HasType(partitions, PRE_IMPORT_CODE) /\ HasType(partitions, CODE)
    /\ Len(partitioned) > Len(partitions)

\* The separators of a list.
SeparatorsAt(parts) == { i \in 1..Len(parts) : parts[i] = Separator }

\* C8: in the output of apply_import_sorting the Import regions are those of
\* the blocks sort() returns, block after block and in each block's order,
\* with exactly one "\n" region between two consecutive blocks and none
\* anywhere else: none after the last block, none when there is no block.
C8_BlockSeparators ==
    pc = "join" =>
        LET blocks == sort(ImportObjSet(partitions))
        IN  /\ ImportObjSeq(partitioned) = Concat(blocks)
            /\ \A i \in ImportsAt(partitioned) :
                   \E j \in ImportsAt(partitions) : partitioned[i] = partitions[j]
            /\ ImportsLaidOut(partitioned)
            /\ Cardinality(SeparatorsAt(partitioned)) =
                   IF blocks = <<>> THEN 0 ELSE Len(blocks) - 1
            /\ \A i \in SeparatorsAt(partitioned) :
                   /\ i - 1 \in ImportsAt(partitioned)
                   /\ i + 1 \in ImportsAt(partitioned)

\* C8 witness: apply_import_sorting wrote two blocks, with code after them.
C8_Witness ==
    /\ pc = "join"
    /\ Len(sort(ImportObjSet(partitions))) = 2
    /\ HasType(partitioned, CODE)

\* C9: the text fix_file_contents returns, when it is not empty, ends with
\* one newline character and has no other white space at its end.
C9_TrailingNewline ==
    (Fixed /\ new_contents # <<>>) =>
        /\ new_contents[Len(new_contents)] = "N"
        /\ Len(new_contents) >= 2 => ~IsWhitespace(new_contents[Len(new_contents) - 1])

\* The indices of the partitions of one type.
TypeAt(parts, code_type) == { i \in 1..Len(parts) : parts[i].code_type = code_type }

\* C10: in the chunks of partition_source every PreImportCode region stands
\* before every Code region, and so it is in the output: the PreImportCode
\* regions are there as they were and in their order, before the one Code
\* region, which holds the text of the Code regions in their order.
C10_OrderPreservation ==
    Fixed =>
        /\ \A i \in TypeAt(chunks, PRE_IMPORT_CODE) :
               \A j \in TypeAt(chunks, CODE) : i < j
        /\ \A i \in TypeAt(partitioned, PRE_IMPORT_CODE) :
               \A j \in TypeAt(partitioned, CODE) : i < j
        /\ OfType(partitioned, PRE_IMPORT_CODE) = OfType(chunks, PRE_IMPORT_CODE)
        /\ Cardinality(TypeAt(partitioned, CODE)) <= 1
        /\ \A j \in TypeAt(partitioned, CODE) :
               partitioned[j].src =
                   StripRest(JoinSrc(OfType(chunks, CODE))) \o <<"N">>

\* C10 witness: a source with pre-import code, imports and two Code regions
\* was fixed.
C10_Witness ==
    /\ Fixed
    /\ HasType(chunks, PRE_IMPORT_CODE) /\ HasType(chunks, IMPORT)
    /\ Cardinality(TypeAt(chunks, CODE)) >= 2
    /\ HasType(partitioned, CODE)

\* ------------------------------------------------------------ claims: main

\* The positions in the log of the events of one kind.
EventsAt(op) == { i \in 1..Len(log) : log[i].op = op }

\* The iteration of main's loop that event i belongs to: the files read up
\* to it.
IterationOf(i) == Cardinality({ j \in EventsAt("read") : j <= i })

\* Event i says that fix_file_contents returned another text than the one
\* read just before it.
ChangedAt(i) == log[i].op = "fixed" /\ log[i].text # log[i - 1].text

\* Every result of fix_file_contents follows the read of its file.
FixedFollowsRead ==
    \A i \in EventsAt("fixed") :
        /\ i - 1 \in EventsAt("read")
        /\ log[i - 1].filename = log[i].filename

\* C11: at every moment retv is 1 when fix_file_contents has returned, for
\* some file so far, another text than the file held, and 0 otherwise, so a
\* later unchanged file does not set it back; main returns after every file
\* was fixed, and returns that value, with --show-diff and without.
C11_ExitCode ==
    /\ FixedFollowsRead
    /\ retv = (IF \E i \in EventsAt("fixed") : ChangedAt(i) THEN 1 ELSE 0)
    /\ pc = "returned" =>
           /\ returned = <<retv>>
           /\ Cardinality(EventsAt("fixed")) = Len(filenames)
    /\ pc # "returned" => returned = <<>>

\* C11 witness: main returned 1 for two files of which the first was changed
\* and the second was not.
C11_Witness ==
    /\ pc = "returned" /\ returned = <<1>>
    /\ Len(filenames) = 2
    /\ EventsAt("fixed") # {}
    /\ LET first == CHOOSE i \in EventsAt("fixed") :
                        \A j \in EventsAt("fixed") : i <= j
           last == CHOOSE i \in EventsAt("fixed") :
                        \A j \in EventsAt("fixed") : j <= i
       IN  first # last /\ ChangedAt(first) /\ ~ChangedAt(last)

\* C12: a step of main changes the disk exactly when fix_file_contents has
\* returned, for a file that can be opened for writing, another text than
\* the file holds and --show-diff is not set; the step changes that file
\* alone, and the file then holds the text fix_file_contents returned for the
\* text it held.
C12_WriteEffect ==
    [][ /\ (disk' # disk) <=>
               /\ FixReturned
               /\ contents # new_contents
               /\ ~show_diff
               /\ filename \notin read_only
        /\ (disk' # disk) =>
               /\ contents = disk[filename]
               /\ log[Len(log)] = Event("read", filename, contents)
               /\ disk' = [disk EXCEPT ![filename] = new_contents]
      ]_vars

\* C12 witness: main is given the same file twice; it wrote the file the
\* first time and left it alone the second time.
C12_Witness ==
    /\ pc = "returned"
    /\ ~show_diff
    /\ Len(filenames) = 2 /\ filenames[1] = filenames[2]
    /\ Cardinality(EventsAt("write")) = 1
    /\ \E i \in EventsAt("write") :
           /\ disk[filenames[1]] = log[i].text
           /\ log[Len(log)] = Event("fixed", filenames[1], log[i].text)

\* The last event that wrote file f.
LastWriteTo(f) ==
    CHOOSE i \in EventsAt("write") :
        /\ log[i].filename = f
        /\ \A j \in EventsAt("write") : log[j].filename = f => j <= i

\* C13: the files are read in the order of the arguments and the loop goes
\* past a file only when fix_file_contents has returned for it. When an
\* exception ends main at file N, main has returned nothing, nothing was
\* read, printed or written for a file after N, file N was not written, and
\* every file written before holds what was written to it last.
C13_BatchAbort ==
    /\ LET reads == EventsAt("read")
       IN  /\ Cardinality(reads) <= Len(filenames)
           /\ \A i \in reads : log[i].filename = filenames[IterationOf(i)]
           /\ \A i \in 1..Len(log) :
                  /\ IterationOf(i) >= 1
                  /\ log[i].filename = filenames[IterationOf(i)]
           /\ Cardinality(reads) \in {file_index - 1, file_index}
    /\ Cardinality(EventsAt("fixed")) >= file_index - 1
    /\ pc = "raised" =>
           /\ returned = <<>>
           /\ InLoop
           /\ error \in {"IOError", "SyntaxError", "AssertionError"}
           /\ \A i \in 1..Len(log) : IterationOf(i) <= file_index
           /\ \A i \in EventsAt("write") : IterationOf(i) < file_index
           /\ \A f \in Files :
                  (\E i \in EventsAt("write") : log[i].filename = f) =>
                      disk[f] = log[LastWriteTo(f)].text

\* C13 witness: main wrote its first file and an exception ended it at the
\* second.
C13_Witness ==
    /\ pc = "raised"
    /\ file_index = 2
    /\ EventsAt("write") # {}
    /\ filenames[1] # filenames[2]

\* ----------------------------------------------------- claims: partitioner

\* The loop of partition_source has just taken the branch that opens a
\* region of this type with these terminating tokens; the token it was
\* opened on is tokens[next_token - 1].
JustOpened(code_type, terminators) ==
    /\ pc = "scan"
    /\ next_token > 1
    /\ pending_chunk_type = code_type
    /\ possible_ending_tokens = terminators
    /\ (next_token = 2 \/ tokens[next_token - 2].token_type \in {"NL", "NEWLINE"})

\* C14: when a string token has opened a PreImportCode region, the string is
\* the whole logical statement: what follows it is the statement's NEWLINE
\* (or the end of the stream), with at most a comment before it.
C14_DocstringRule ==
    (JustOpened(PRE_IMPORT_CODE, TERMINATES_DOCSTRING)
         /\ tokens[next_token - 1].token_type = "STRING")
        => tokens[next_token].token_type \in {"COMMENT", "NEWLINE", "ENDMARKER"}

\* The physical lines that hold a comment alone or a statement that begins
\* with a string literal, and have neither a top-level import nor another
\* statement before them.
LeadingLines ==
    LET lines == PhysicalLines(contents)
        opens(r) == \/ LineKind(lines[r].text) = "comment"
                    \/ /\ LineKind(lines[r].text) = "stmt"
                       /\ StatementBody(lines[r].text, 1)[1] = "D"
    IN  { r \in 1..Len(lines) :
            /\ opens(r)
            /\ \A k \in 1..(r - 1) :
                   LineKind(lines[k].text) = "stmt" => opens(k) }

\* The loop of partition_source is idle at a comment or a string token.
IdleAtCommentOrString ==
    Scanning /\ Idle /\ token.token_type \in {"COMMENT", "STRING"}

\* C15: seen_import is set by the step that opens the first Import region
\* and stays set until partition_source is called anew. A comment or a string token met
\* while idle opens a PreImportCode region before that and a Code region
\* after it. In the chunks partition_source returns every PreImportCode
\* region stands before every Import region, and there is one of them for
\* each leading comment line and each leading statement that begins with a
\* string.
C15_PreImportCodeOnlyBeforeImports ==
    /\ [](Partitioned =>
             /\ \A i \in TypeAt(chunks, PRE_IMPORT_CODE) :
                    \A j \in TypeAt(chunks, IMPORT) : i < j
             /\ Cardinality(TypeAt(chunks, PRE_IMPORT_CODE)) =
                    Cardinality(LeadingLines)
             /\ seen_import = HasType(chunks, IMPORT))
    /\ [][ /\ (seen_import /\ pc # "parse") => seen_import'
           /\ (~seen_import /\ seen_import') =>
                  /\ pending_chunk_type' = IMPORT
                  /\ ~HasType(chunks, IMPORT)
           /\ (IdleAtCommentOrString /\ ~seen_import) =>
                  pending_chunk_type' = PRE_IMPORT_CODE
           /\ (IdleAtCommentOrString /\ seen_import) =>
                  pending_chunk_type' = CODE
         ]_vars

\* C15 witness: partition_source returned two PreImportCode regions, a
\* comment and a docstring, then an Import region, and a Code region for a
\* comment that stands after the imports.
C15_Witness ==
    /\ pc = "separate"
    /\ \E i, j \in TypeAt(chunks, PRE_IMPORT_CODE) :
           /\ chunks[i].src[1] = "#"
           /\ chunks[j].src[1] = "D"
    /\ HasType(chunks, IMPORT)
    /\ \E k \in TypeAt(chunks, CODE) : chunks[k].src[1] = "#"

\* C16: every step of the scan with a region pending closes it when the
\* token is one of the region's terminating tokens and leaves it pending
\* otherwise; every terminating set holds ENDMARKER and no region is pending
\* when the scan is over; a step that emits a region moves the cut position
\* forward, to the end of the token, and the region is the text between the
\* two cut positions, so the regions emitted so far are the source up to the
\* cut position.
C16_RegionClosureAndCoverage ==
    /\ [](/\ \A set \in {TERMINATES_COMMENT, TERMINATES_DOCSTRING,
                         TERMINATES_IMPORT, TERMINATES_CODE} :
                 "ENDMARKER" \in set
          /\ (pc = "scan" /\ next_token > Len(tokens)) => Idle
          /\ pc = "scan" => JoinSrc(chunks) = Slice(contents, 0, startpos))
    /\ [][ /\ (Scanning /\ ~Idle) =>
                  IF token.token_type \in possible_ending_tokens
                  THEN /\ pending_chunk_type' = "None"
                       /\ Len(chunks') = Len(chunks) + 1
                       /\ chunks'[Len(chunks')].code_type = pending_chunk_type
                  ELSE UNCHANGED <<pending_chunk_type, chunks, startpos>>
           /\ (pc = "scan" /\ pc' = "scan") =>
                  /\ startpos' >= startpos
                  /\ chunks' # chunks =>
                         /\ startpos' = EndPos
                         /\ chunks' = Append(chunks,
                                CodePartition(chunks'[Len(chunks')].code_type,
                                    Slice(contents, startpos, startpos')))
         ]_vars

\* ------------------------------------------- claims: apply_import_sorting

\* The two line breaks apply_import_sorting puts before the code.
TwoLineBreaks == CodePartition(NON_CODE, <<"N", "N">>)

\* C17: when apply_import_sorting has returned, its output is the
\* PreImportCode regions of its input, then Import regions with nothing but
\* one-"\n" regions between them, then the code: when the joined text of the
\* input's Code regions, less its leading newlines and its trailing white
\* space, is not empty, the NonCode region "\n\n" and one Code region that
\* holds this text and one "\n"; nothing otherwise. No other NonCode region
\* is in the output, whatever NonCode regions the input held.
C17_RemainingCode ==
    pc = "join" =>
        LET restsrc == StripRest(JoinSrc(OfType(partitions, CODE)))
            n == Len(partitioned)
            pre == Len(OfType(partitions, PRE_IMPORT_CODE))
            tail == IF restsrc # <<>> THEN 2 ELSE 0
        IN  /\ n >= pre + tail
            /\ SubSeq(partitioned, 1, pre) = OfType(partitions, PRE_IMPORT_CODE)
            /\ \A i \in (pre + 1)..(n - tail) :
                   \/ partitioned[i].code_type = IMPORT
                   \/ /\ partitioned[i] = Separator
                      /\ pre + 1 < i /\ i < n - tail
                      /\ partitioned[i - 1].code_type = IMPORT
                      /\ partitioned[i + 1].code_type = IMPORT
            /\ restsrc # <<>> =>
                   /\ partitioned[n - 1] = TwoLineBreaks
                   /\ partitioned[n] = CodePartition(CODE, restsrc \o <<"N">>)
            /\ Cardinality(TypeAt(partitioned, CODE)) <= 1
            /\ Cardinality(TypeAt(partitioned, PRE_IMPORT_CODE)) = pre

\* C17 witness: apply_import_sorting was given a blank line, imports and
\* several Code regions, and wrote the code as one region behind two line
\* breaks.
C17_Witness ==
    /\ pc = "join"
    /\ HasType(partitions, NON_CODE)
    /\ HasType(partitions, IMPORT)
    /\ Cardinality(TypeAt(partitions, CODE)) >= 2
    /\ Len(partitioned) >= 2
    /\ partitioned[Len(partitioned) - 1] = TwoLineBreaks
    /\ Cardinality(TypeAt(partitioned, CODE)) = 1

\* C17, second case reached: the input held no import and no pre-import
\* code, only code that ends with a blank line, and the output is the two
\* line breaks and the code without the blank line.
C17_WitnessNoImports ==
    /\ pc = "join"
    /\ ~HasType(partitions, IMPORT) /\ ~HasType(partitions, PRE_IMPORT_CODE)
    /\ Len(partitioned) = 2
    /\ partitioned[1] = TwoLineBreaks
    /\ partitioned[2].src # JoinSrc(OfType(partitions, CODE))

\* ------------------------------------------------- claims: late imports

RECURSIVE LineOffset(_, _)
\* The offset in the source of the first character of physical line r.
LineOffset(lines, r) ==
    IF r = 1 THEN 0
    ELSE LineOffset(lines, r - 1) + Len(lines[r - 1].text) + 1

\* The offset in the source of the first character of chunk i.
ChunkOffset(i) == Len(JoinSrc(SubSeq(chunks, 1, i - 1)))

\* Physical line r of the source lies in a chunk of this type.
LineInChunk(r, code_type) ==
    \E i \in TypeAt(chunks, code_type) :
        LET at == LineOffset(PhysicalLines(contents), r)
        IN  ChunkOffset(i) <= at /\ at < ChunkOffset(i) + Len(chunks[i].src)

\* The physical lines that hold a statement that is no import.
OtherStatements ==
    LET lines == PhysicalLines(contents)
    IN  { r \in 1..Len(lines) :
            /\ LineKind(lines[r].text) = "stmt"
            /\ ~IsImportStatement(StatementBody(lines[r].text, 1)) }

\* The physical lines that hold a statement that is no import and that does
\* not, with no top-level import before it, begin with a string literal.
CodeStatements ==
    LET lines == PhysicalLines(contents)
    IN  { r \in OtherStatements :
            \/ StatementBody(lines[r].text, 1)[1] # "D"
            \/ \E k \in top_level_import_line_numbers : k < r }

\* A Code region that was opened on a token that is no comment.
OpenEndedCodeAt == { i \in TypeAt(chunks, CODE) : chunks[i].src[1] # "#" }

\* A Code region opened on a token that is no comment stays pending up to
\* ENDMARKER, is the last region and the only one of its kind.
CodeRunsToTheEnd ==
    /\ [][(Scanning /\ pending_chunk_type = CODE
              /\ possible_ending_tokens = TERMINATES_CODE
              /\ token.token_type # "ENDMARKER")
             => UNCHANGED <<pending_chunk_type, possible_ending_tokens, chunks>>
         ]_vars
    /\ [](Partitioned =>
             /\ Cardinality(OpenEndedCodeAt) <= 1
             /\ \A i \in OpenEndedCodeAt : i = Len(chunks))

\* C18 as it is worded: a Code region opened on a token that is no comment
\* runs to the end, and every top-level import that stands after the first
\* statement that is neither an import nor a comment is inside that Code
\* region and is no Import region.
C18_ImportsAfterAStatement ==
    /\ CodeRunsToTheEnd
    /\ [](Partitioned =>
             \A r \in top_level_import_line_numbers :
                 (\E k \in OtherStatements : k < r) =>
                     /\ LineInChunk(r, CODE)
                     /\ ~LineInChunk(r, IMPORT))

\* C18: a Code region opened on a token that is no comment runs to the end,
\* and every top-level import that stands after the first statement that
\* opens such a region is inside it and is no Import region. A statement
\* that begins with a string literal and stands before every import opens no
\* Code region: the top-level imports between it and the first statement
\* that opens one are Import regions.
C18_ImportsAfterCode ==
    /\ CodeRunsToTheEnd
    /\ [](Partitioned =>
             \A r \in top_level_import_line_numbers :
                 IF \E k \in CodeStatements : k < r
                 THEN /\ LineInChunk(r, CODE)
                      /\ ~LineInChunk(r, IMPORT)
                      /\ \A i \in OpenEndedCodeAt :
                             ChunkOffset(i) <
                                 LineOffset(PhysicalLines(contents), r)
                 ELSE LineInChunk(r, IMPORT))

\* C18 witness: partition_source returned a docstring, an Import region for
\* the import after it, and one Code region that holds a statement and the
\* import that follows it.
C18_Witness ==
    /\ pc = "separate"
    /\ \E i \in TypeAt(chunks, PRE_IMPORT_CODE) : chunks[i].src[1] = "D"
    /\ Cardinality(TypeAt(chunks, IMPORT)) = 1
    /\ Cardinality(top_level_import_line_numbers) = 2
    /\ OpenEndedCodeAt = {Len(chunks)}
    /\ \E n \in 1..Len(chunks[Len(chunks)].src) :
           chunks[Len(chunks)].src[n] = "I"

\* ------------------------------------------------ claims: the pipeline

\* The import identities of the Import regions partition_source returned,
\* each region split into one identity per name.
GivenImports ==
    UNION { { split_imports(ObjAt(chunks, i))[k] :
                k \in 1..Len(split_imports(ObjAt(chunks, i))) } :
            i \in ImportsAt(chunks) }

\* The names the text of an import statement holds.
NamesIn(text) == { text[n] : n \in { k \in 1..Len(text) : text[k] \in Names } }

\* C19: after apply_import_sorting (sort() returns every identity it is
\* given in exactly one block, exactly once) the Import regions of the
\* output hold one identity each, no two of them the same, and these
\* identities are those of the Import regions of partition_source, split.
C19_NoImportLostOrInvented ==
    (pc \in {"join", "done"}) =>
        /\ LET blocks == sort(GivenImports)
               places == (1..Len(blocks)) \X (1..Cardinality(GivenImports))
           IN  \A o \in GivenImports :
                   Cardinality({ <<k, j>> \in places :
                       j <= Len(blocks[k]) /\ blocks[k][j] = o }) = 1
        /\ ImportObjSet(partitioned) = GivenImports
        /\ \A i \in ImportsAt(partitioned) :
               /\ Len(ObjAt(partitioned, i)) = 1
               /\ NamesIn(partitioned[i].src) = { ObjAt(partitioned, i)[1] }
               /\ \A j \in ImportsAt(partitioned) :
                      ObjAt(partitioned, j) = ObjAt(partitioned, i) => j = i

\* C19 witness: the source held `import b  # comment` and `import a, b`;
\* the output holds one Import region for a and one for b.
C19_Witness ==
    /\ pc = "done"
    /\ Cardinality(ImportsAt(chunks)) >= 2
    /\ \E i \in ImportsAt(chunks) : has_multiple_imports(ObjAt(chunks, i))
    /\ Cardinality(GivenImports) = 2
    /\ Cardinality(ImportsAt(partitioned)) = 2

====
